---- MODULE Spec2Model ----
(***************************************************************************)
(* Model of the metadata generation and versioning engine of the tool     *)
(* shed controller lib/galaxy/webapps/community/controllers/common.py :   *)
(* set_repository_metadata and the helpers it calls, over one repository  *)
(* (its change history, its working copy and its repository_metadata      *)
(* table rows).                                                            *)
(***************************************************************************)
EXTENDS FiniteSets, Integers, Sequences, TLC

VARIABLES
    history,     \* the changelog: history[i] is the manifest (file name -> content) of changeset i
    wc,          \* the files of the working copy under repo_dir (what os.walk sees)
    records,     \* the repository_metadata rows of the repository, in id order
    last,        \* what the last call of set_repository_metadata did and returned
    processed,   \* the changesets a call has stored metadata for while they were the tip
    requests,    \* the calls of set_repository_metadata that run concurrently, step by step
    guids        \* tools handed to generate_tool_guid and the guids it returned

vars == <<history, wc, records, last, processed, requests, guids>>

(***************************************************************************)
(* Bounds                                                                  *)
(***************************************************************************)
MaxRevs == 2        \* changesets committed to the repository
MaxRecords == 3     \* repository_metadata rows
NumRequests == 2    \* web requests that call set_repository_metadata at the same time
MaxLen == 2         \* characters of a tool id or of a tool version

(***************************************************************************)
(* File names and file contents                                            *)
(***************************************************************************)
\* A file name is its base and its extension: a.xml is [base |-> "a", ext |-> "xml"].
FileName(b, e) == [base |-> b, ext |-> e]

A_XML == FileName("a", "xml")
B_XML == FileName("b", "xml")
W_GA == FileName("w", "ga")
DATATYPES_CONF == FileName("datatypes_conf", "xml")
X_LOC_SAMPLE == FileName("x.loc", "sample")

\* The order in which a walk (os.walk at the tip, iteration of a changectx
\* otherwise) meets the files.
FileOrder == <<A_XML, B_XML, DATATYPES_CONF, W_GA, X_LOC_SAMPLE>>

\* name.endswith( '.xml' ), name.endswith( '.ga' ), name.endswith( '.sample' )
endswith(name, ext) == name.ext = ext

\* What a file holds, by what the parsers make of it.
ToolXml(id, version, description, index_file) ==
    [kind |-> "tool", id |-> id, version |-> version,
     description |-> description, index_file |-> index_file]
MalformedXml == [kind |-> "malformed"]          \* util.parse_xml raises
OtherXml == [kind |-> "other_xml"]              \* well formed, root is not <tool>
Workflow(marker) == [kind |-> "workflow", a_galaxy_workflow |-> marker]
MalformedJson == [kind |-> "malformed_json"]    \* from_json_string raises
DatatypesConf(files, registration) ==
    [kind |-> "datatypes", datatype_files |-> files, registration |-> registration]
SampleFile == [kind |-> "sample"]

NoIndexFile == [head |-> "", tail |-> ""]
XLoc == [head |-> "tool-data", tail |-> "x.loc"]

EmptyManifest == [n \in {} |-> SampleFile]
File(name, content) == [n \in {name} |-> content]

\* The file trees the repository is given: each is a working copy and the
\* manifest of the changeset committed from it.
Manifests ==
    { EmptyManifest,
      File(A_XML, ToolXml("a", "1.0.0", "d1", NoIndexFile)),
      File(A_XML, ToolXml("a", "1.0.0", "d2", NoIndexFile)),
      File(A_XML, ToolXml("a", "1.1.0", "d1", NoIndexFile)) @@ File(B_XML, MalformedXml),
      File(A_XML, ToolXml("a", "1.0.0", "d1", NoIndexFile))
          @@ File(B_XML, ToolXml("b", "1.0.0", "d1", NoIndexFile)),
      File(A_XML, ToolXml("a", "1.0.0", "d1", NoIndexFile))
          @@ File(B_XML, ToolXml("a", "1.1.0", "d1", NoIndexFile)),
      File(W_GA, Workflow("true")),
      File(DATATYPES_CONF, DatatypesConf(TRUE, TRUE)),
      File(A_XML, MalformedXml) @@ File(B_XML, ToolXml("b", "1.0.0", "d1", NoIndexFile))
          @@ File(W_GA, MalformedJson),
      File(A_XML, ToolXml("a", "1.0.0", "d1", XLoc)) @@ File(B_XML, OtherXml),
      File(A_XML, ToolXml("a", "1.0.0", "d1", XLoc)) @@ File(X_LOC_SAMPLE, SampleFile)
          @@ File(W_GA, Workflow("true")) @@ File(DATATYPES_CONF, DatatypesConf(FALSE, TRUE)),
      File(DATATYPES_CONF, MalformedXml) @@ File(A_XML, ToolXml("a", "1.0.0", "d1", NoIndexFile)),
      File(A_XML, ToolXml("a", "1.0.0", "d1", XLoc))
          @@ File(B_XML, ToolXml("b", "1.0.0", "d1", NoIndexFile)) }

\* The files of a tree in walk order.
RECURSIVE FilesIn(_, _)
FilesIn(manifest, i) ==
    IF i > Len(FileOrder) THEN <<>>
    ELSE (IF FileOrder[i] \in DOMAIN manifest THEN <<FileOrder[i]>> ELSE <<>>)
         \o FilesIn(manifest, i + 1)


(***************************************************************************)
(* The metadata document (metadata_dict): a mapping with the optional     *)
(* keys tools, workflows, datatype_files and datatypes.                    *)
(***************************************************************************)
EmptyDict == [k \in {} |-> <<>>]

\* metadata_dict[ key ] = value
SetKey(metadata_dict, key, value) ==
    [k \in DOMAIN metadata_dict \cup {key} |-> IF k = key THEN value ELSE metadata_dict[k]]

\* if key in metadata_dict: metadata_dict[ key ].append( item ), else: metadata_dict[ key ] = [ item ]
AppendToKey(metadata_dict, key, item) ==
    IF key \in DOMAIN metadata_dict
    THEN SetKey(metadata_dict, key, Append(metadata_dict[key], item))
    ELSE SetKey(metadata_dict, key, <<item>>)

\* The truth value of a dictionary: it has a key.
Truthy(metadata_dict) == DOMAIN metadata_dict # {}

(***************************************************************************)
(* Parsers                                                                 *)
(***************************************************************************)
\* load_tool: raises on a file that is not well formed XML, returns None
\* for a root element other than <tool>, and the tool otherwise.
load_tool_raises(content) == content.kind = "malformed"
load_tool_is_tool(content) == content.kind = "tool"

\* str( e ) of the exception a parser raises on a file.
ParseErrorMsg(content) == [kind |-> "exception", text |-> content.kind]

\* os.path.split( path )[ 1 ]
PathTail(path) == path.tail

\* The two correction messages of check_tool_input_params for an index file
\* without its sample: they name index_file and '%s.sample' % index_tail.
MissingIndexMsg(index_file) ==
    [kind |-> "missing_index", refers_to |-> index_file,
     upload |-> FileName(PathTail(index_file), "sample")]

\* check_tool_input_params for a tool whose dynamic parameter depends on an
\* index file (options.index_file or options.missing_index_file): the
\* repository must hold a sample file named '%s.sample' % index_tail.
check_tool_input_params(name, tool, sample_files, invalid_files) ==
    IF tool.index_file = NoIndexFile
    THEN [can_set_metadata |-> TRUE, invalid_files |-> invalid_files]
    ELSE IF \E i \in 1..Len(sample_files) :
                sample_files[i] = FileName(PathTail(tool.index_file), "sample")
         THEN [can_set_metadata |-> TRUE, invalid_files |-> invalid_files]
         ELSE [can_set_metadata |-> FALSE,
               invalid_files |-> Append(invalid_files,
                                        <<name, MissingIndexMsg(tool.index_file)>>)]

\* generate_tool_metadata: appends the tool's dictionary to metadata_dict[ 'tools' ].
generate_tool_metadata(tool_config, tool, metadata_dict) ==
    AppendToKey(metadata_dict, "tools",
                [id |-> tool.id, version |-> tool.version,
                 description |-> tool.description, tool_config |-> tool_config])

\* generate_workflow_metadata: appends the exported workflow to metadata_dict[ 'workflows' ].
generate_workflow_metadata(exported_workflow_dict, metadata_dict) ==
    AppendToKey(metadata_dict, "workflows", exported_workflow_dict)

\* generate_datatypes_metadata on a well formed datatypes_conf.xml: the keys
\* datatype_files and datatypes are set when the root has the section.
generate_datatypes_metadata(datatypes_config, metadata_dict) ==
    LET with_files == IF datatypes_config.kind = "datatypes" /\ datatypes_config.datatype_files
                      THEN SetKey(metadata_dict, "datatype_files", <<"code.py">>)
                      ELSE metadata_dict
    IN  IF datatypes_config.kind = "datatypes" /\ datatypes_config.registration
        THEN SetKey(with_files, "datatypes",
                    <<[extension |-> "ext", dtype |-> "dtype", mimetype |-> "mime"]>>)
        ELSE with_files

\* The sample files of a tree, in walk order.
RECURSIVE SampleFiles(_, _)
SampleFiles(files, i) ==
    IF i > Len(files) THEN <<>>
    ELSE (IF endswith(files[i], "sample") THEN <<files[i]>> ELSE <<>>)
         \o SampleFiles(files, i + 1)

\* The state of a walk: the document and the invalid files so far, the files
\* handed to a parser, the temporary files still on disk, and the exception
\* that left the walk, if one did.
NoException == "none"
WalkStart ==
    [metadata_dict |-> EmptyDict, invalid_files |-> <<>>, parsed |-> <<>>,
     tmp_files |-> <<>>, raised |-> NoException]

\* The path a tool config is recorded under: os.path.join( root, name ) at
\* the tip, the path within the changeset otherwise.
TipPath(name) == [root |-> "repo_dir", name |-> name]
CtxPath(name) == [root |-> "", name |-> name]

\* One file of the walk of the working copy (the body of "for name in files").
TipFile(tree, name, sample_files, w) ==
    IF name # DATATYPES_CONF /\ endswith(name, "xml")
    THEN LET seen == [w EXCEPT !.parsed = Append(@, name)]
         IN  IF load_tool_raises(tree[name])
             THEN [seen EXCEPT !.invalid_files = Append(@, <<name, ParseErrorMsg(tree[name])>>)]
             ELSE IF ~load_tool_is_tool(tree[name]) THEN seen
             ELSE LET chk == check_tool_input_params(name, tree[name], sample_files,
                                                     seen.invalid_files)
                  IN  IF chk.can_set_metadata
                      THEN [seen EXCEPT !.invalid_files = chk.invalid_files,
                                        !.metadata_dict =
                                            generate_tool_metadata(TipPath(name), tree[name], @)]
                      ELSE [seen EXCEPT !.invalid_files = chk.invalid_files]
    ELSE IF endswith(name, "ga")
    THEN LET seen == [w EXCEPT !.parsed = Append(@, name)]
         IN  IF tree[name].kind # "workflow"
             THEN [seen EXCEPT !.invalid_files = Append(@, <<name, ParseErrorMsg(tree[name])>>)]
             ELSE IF tree[name].a_galaxy_workflow = "true"
                  THEN [seen EXCEPT !.metadata_dict = generate_workflow_metadata(tree[name], @)]
                  ELSE seen
    ELSE w

RECURSIVE WalkTip(_, _, _, _, _)
WalkTip(tree, files, i, sample_files, w) ==
    IF i > Len(files) THEN w
    ELSE WalkTip(tree, files, i + 1, sample_files, TipFile(tree, files[i], sample_files, w))

\* The tip branch of set_repository_metadata up to the document: the
\* datatypes configuration, the sample files, the tool configs and workflows.
ExtractTip(tree) ==
    LET files == FilesIn(tree, 1)
        start == IF DATATYPES_CONF \in DOMAIN tree
                 THEN IF tree[DATATYPES_CONF].kind = "malformed"
                      THEN [WalkStart EXCEPT !.parsed = <<DATATYPES_CONF>>,
                                             !.raised = "ParseError"]
                      ELSE [WalkStart EXCEPT !.parsed = <<DATATYPES_CONF>>,
                                             !.metadata_dict =
                                                 generate_datatypes_metadata(tree[DATATYPES_CONF], @)]
                 ELSE WalkStart
    IN  IF start.raised # NoException THEN start
        ELSE WalkTip(tree, files, 1, SampleFiles(files, 1), start)

\* One file of the walk of a changeset that is not the tip: its content is
\* written to a temporary file, parsed, and the temporary file unlinked.  The
\* except clause names the variable name, which this branch never assigns.
CtxFile(tree, filename, sample_files, w) ==
    IF endswith(filename, "xml")
    THEN LET seen == [w EXCEPT !.parsed = Append(@, filename)]
         IN  IF load_tool_raises(tree[filename])
             THEN [seen EXCEPT !.raised = "UnboundLocalError",
                               !.tmp_files = Append(@, filename)]
             ELSE IF ~load_tool_is_tool(tree[filename]) THEN seen
             ELSE LET chk == check_tool_input_params(filename, tree[filename], sample_files,
                                                     seen.invalid_files)
                  IN  IF chk.can_set_metadata
                      THEN [seen EXCEPT !.invalid_files = chk.invalid_files,
                                        !.metadata_dict =
                                            generate_tool_metadata(CtxPath(filename),
                                                                   tree[filename], @)]
                      ELSE [seen EXCEPT !.invalid_files = chk.invalid_files]
    ELSE w

RECURSIVE WalkCtx(_, _, _, _, _)
WalkCtx(tree, files, i, sample_files, w) ==
    IF i > Len(files) \/ w.raised # NoException THEN w
    ELSE WalkCtx(tree, files, i + 1, sample_files, CtxFile(tree, files[i], sample_files, w))

\* The walk of the working copy, workflows and datatypes included, in the
\* place of the walk of the manifest of the changeset.
ExtractCtx_as_tip(tree) == ExtractTip(tree)

\* The branch of set_repository_metadata for a changeset that is not the tip.
ExtractCtx(tree) ==
    LET files == FilesIn(tree, 1)
    IN  WalkCtx(tree, files, 1, SampleFiles(files, 1), WalkStart)

(***************************************************************************)
(* The metadata store: the repository_metadata rows of the repository      *)
(***************************************************************************)
RepositoryMetadata(changeset_revision, metadata_dict) ==
    [changeset_revision |-> changeset_revision, metadata |-> metadata_dict]

\* get_latest_repository_metadata: the row with the highest id, 0 for None.
get_latest_repository_metadata(rows) == Len(rows)

\* get_repository_metadata_by_changeset_revision: the rows the query
\* matches; .first() returns one of them, None when there is none.
get_repository_metadata_by_changeset_revision(rows, changeset_revision) ==
    { i \in 1..Len(rows) : rows[i].changeset_revision = changeset_revision }

(***************************************************************************)
(* The diff engine                                                         *)
(***************************************************************************)
\* The list saved_tool_ids after the first pair of loops: the saved ids are
\* collected inside the loop over the new tools.
saved_tool_ids(new_tools, saved_tools) ==
    IF Len(new_tools) = 0 THEN {}
    ELSE { saved_tools[j].id : j \in 1..Len(saved_tools) }

\* new_tool_metadata_required without the branch for a repository that has
\* no saved row (the final "return True").
new_tool_metadata_required_no_row(rows, metadata_dict) ==
    IF "tools" \in DOMAIN metadata_dict /\ get_latest_repository_metadata(rows) # 0
    THEN LET metadata == rows[get_latest_repository_metadata(rows)].metadata
         IN  IF Truthy(metadata) /\ "tools" \in DOMAIN metadata
             THEN LET new_tools == metadata_dict["tools"]
                      saved_tools == metadata["tools"]
                  IN  \/ \E i \in 1..Len(new_tools), j \in 1..Len(saved_tools) :
                             /\ new_tools[i].id = saved_tools[j].id
                             /\ new_tools[i].version # saved_tools[j].version
                      \/ \E i \in 1..Len(new_tools) :
                             new_tools[i].id \notin saved_tool_ids(new_tools, saved_tools)
             ELSE FALSE
    ELSE FALSE

\* new_tool_metadata_required without the comparison of the version strings.
new_tool_metadata_required_no_version(rows, metadata_dict) ==
    IF "tools" \in DOMAIN metadata_dict
    THEN IF get_latest_repository_metadata(rows) # 0
         THEN LET metadata == rows[get_latest_repository_metadata(rows)].metadata
              IN  IF Truthy(metadata) /\ "tools" \in DOMAIN metadata
                  THEN \E i \in 1..Len(metadata_dict["tools"]) :
                           metadata_dict["tools"][i].id
                               \notin saved_tool_ids(metadata_dict["tools"], metadata["tools"])
                  ELSE FALSE
         ELSE TRUE
    ELSE FALSE

\* new_tool_metadata_required without the second loop, over the tool ids
\* that are not among the saved ones.
new_tool_metadata_required_no_new_id(rows, metadata_dict) ==
    IF "tools" \in DOMAIN metadata_dict
    THEN IF get_latest_repository_metadata(rows) # 0
         THEN LET metadata == rows[get_latest_repository_metadata(rows)].metadata
              IN  IF Truthy(metadata) /\ "tools" \in DOMAIN metadata
                  THEN \E i \in 1..Len(metadata_dict["tools"]), j \in 1..Len(metadata["tools"]) :
                           /\ metadata_dict["tools"][i].id = metadata["tools"][j].id
                           /\ metadata_dict["tools"][i].version # metadata["tools"][j].version
                  ELSE FALSE
         ELSE TRUE
    ELSE FALSE

\* new_tool_metadata_required with True in the branch for a latest row whose
\* document has no tools.
new_tool_metadata_required_first_tool(rows, metadata_dict) ==
    IF "tools" \in DOMAIN metadata_dict
    THEN IF get_latest_repository_metadata(rows) # 0
         THEN LET metadata == rows[get_latest_repository_metadata(rows)].metadata
              IN  IF Truthy(metadata) /\ "tools" \in DOMAIN metadata
                  THEN LET new_tools == metadata_dict["tools"]
                           saved_tools == metadata["tools"]
                       IN  \/ \E i \in 1..Len(new_tools), j \in 1..Len(saved_tools) :
                                  /\ new_tools[i].id = saved_tools[j].id
                                  /\ new_tools[i].version # saved_tools[j].version
                           \/ \E i \in 1..Len(new_tools) :
                                  new_tools[i].id \notin saved_tool_ids(new_tools, saved_tools)
                  ELSE TRUE
         ELSE TRUE
    ELSE FALSE

\* new_tool_metadata_required where a saved tool id that is not among the
\* new ones requires a row too.
new_tool_metadata_required_removed_id(rows, metadata_dict) ==
    IF "tools" \in DOMAIN metadata_dict
    THEN IF get_latest_repository_metadata(rows) # 0
         THEN LET metadata == rows[get_latest_repository_metadata(rows)].metadata
              IN  IF Truthy(metadata) /\ "tools" \in DOMAIN metadata
                  THEN LET new_tools == metadata_dict["tools"]
                           saved_tools == metadata["tools"]
                       IN  \/ \E i \in 1..Len(new_tools), j \in 1..Len(saved_tools) :
                                  /\ new_tools[i].id = saved_tools[j].id
                                  /\ new_tools[i].version # saved_tools[j].version
                           \/ \E i \in 1..Len(new_tools) :
                                  new_tools[i].id \notin saved_tool_ids(new_tools, saved_tools)
                           \/ \E j \in 1..Len(saved_tools) :
                                  \A i \in 1..Len(new_tools) : new_tools[i].id # saved_tools[j].id
                  ELSE FALSE
         ELSE TRUE
    ELSE FALSE

new_tool_metadata_required(rows, metadata_dict) ==
    IF "tools" \in DOMAIN metadata_dict
    THEN IF get_latest_repository_metadata(rows) # 0
         THEN LET metadata == rows[get_latest_repository_metadata(rows)].metadata
              IN  IF Truthy(metadata) /\ "tools" \in DOMAIN metadata
                  THEN LET new_tools == metadata_dict["tools"]
                           saved_tools == metadata["tools"]
                       IN  \/ \E i \in 1..Len(new_tools), j \in 1..Len(saved_tools) :
                                  /\ new_tools[i].id = saved_tools[j].id
                                  /\ new_tools[i].version # saved_tools[j].version
                           \/ \E i \in 1..Len(new_tools) :
                                  new_tools[i].id \notin saved_tool_ids(new_tools, saved_tools)
                  ELSE FALSE
         ELSE TRUE
    ELSE FALSE

\* new_workflow_metadata_required without the query for the latest saved
\* row: a document with workflows always requires a row.
new_workflow_metadata_required_no_query(rows, metadata_dict) ==
    IF "workflows" \in DOMAIN metadata_dict THEN TRUE ELSE FALSE

new_workflow_metadata_required(rows, metadata_dict) ==
    IF "workflows" \in DOMAIN metadata_dict
    THEN IF get_latest_repository_metadata(rows) # 0
         THEN IF Truthy(rows[get_latest_repository_metadata(rows)].metadata) THEN FALSE
              ELSE FALSE
         ELSE TRUE
    ELSE FALSE

(***************************************************************************)
(* set_repository_metadata                                                 *)
(***************************************************************************)
\* repository.tip: the last changeset of the changelog, 0 (the null
\* revision) for an empty one.
Tip == Len(history)

\* get_changectx_for_changeset finds the changeset in the changelog.
ctx_found(changeset_revision) == changeset_revision \in 1..Len(history)

NoMessage == [text |-> "", revision |-> 0, items |-> <<>>]

\* The message over the invalid files (the last block of the function): a
\* heading that depends on the document, then one item per invalid file.
\* An item carries the file's message as it is: none of the messages of the
\* modelled files holds the text 'No such file or directory', which is the
\* one case the block rewrites.
InvalidFilesMessage(changeset_revision, metadata_dict, invalid_files) ==
    [text |-> IF Truthy(metadata_dict) THEN "Metadata was defined for some items"
              ELSE "Metadata cannot be defined",
     revision |-> changeset_revision,
     items |-> invalid_files]

\* What the call leaves in last.
Returned(changeset_revision, w, store_op, message, status) ==
    [changeset_revision |-> changeset_revision, outcome |-> "returned",
     raised |-> NoException, status |-> status, message |-> message,
     store_op |-> store_op, metadata_dict |-> w.metadata_dict,
     invalid_files |-> w.invalid_files, parsed |-> w.parsed, tmp_files |-> w.tmp_files]

Raised(changeset_revision, w, exception) ==
    [changeset_revision |-> changeset_revision, outcome |-> "raised",
     raised |-> exception, status |-> "", message |-> NoMessage,
     store_op |-> "none", metadata_dict |-> w.metadata_dict,
     invalid_files |-> w.invalid_files, parsed |-> w.parsed, tmp_files |-> w.tmp_files]

NoRun ==
    [changeset_revision |-> -1, outcome |-> "idle",
     raised |-> NoException, status |-> "", message |-> NoMessage,
     store_op |-> "none", metadata_dict |-> EmptyDict,
     invalid_files |-> <<>>, parsed |-> <<>>, tmp_files |-> <<>>]

\* The end of a call that reached the return statement: the message and
\* status set so far are replaced when some file was invalid.
Return(changeset_revision, w, store_op, message, status) ==
    IF Len(w.invalid_files) > 0
    THEN Returned(changeset_revision, w, store_op,
                  InvalidFilesMessage(changeset_revision, w.metadata_dict, w.invalid_files),
                  "error")
    ELSE Returned(changeset_revision, w, store_op, message, status)

\* The branch for a changeset that is not in the changelog without its
\* assignment of the status.
RevisionNotFound_status_kept(changeset_revision) ==
    Return(changeset_revision, WalkStart, "none",
           [text |-> "This repository does not include revision",
            revision |-> changeset_revision, items |-> <<>>],
           "done")

\* The changeset is not in the changelog (change_set is None).
RevisionNotFound(changeset_revision) ==
    Return(changeset_revision, WalkStart, "none",
           [text |-> "This repository does not include revision",
            revision |-> changeset_revision, items |-> <<>>],
           "error")

\* No tool and no workflow to define metadata for (metadata_dict is empty).
NothingToInstall(changeset_revision, w) ==
    Return(changeset_revision, w, "none",
           [text |-> "includes no tools or exported workflows",
            revision |-> changeset_revision, items |-> <<>>],
           "error")

\* The outcomes of set_repository_metadata( trans, id, changeset_revision ):
\* the rows and the record of the call afterwards.
Outcomes(changeset_revision) ==
    IF ~ctx_found(changeset_revision)
    THEN { [rows |-> records, call |-> RevisionNotFound(changeset_revision)] }
    ELSE LET w == IF changeset_revision = Tip THEN ExtractTip(wc)
                  ELSE ExtractCtx(history[changeset_revision])
             metadata_dict == w.metadata_dict
         IN  IF w.raised # NoException
             THEN { [rows |-> records, call |-> Raised(changeset_revision, w, w.raised)] }
             ELSE IF Truthy(metadata_dict)
             THEN IF changeset_revision = Tip
                  THEN IF \/ new_tool_metadata_required(records, metadata_dict)
                          \/ new_workflow_metadata_required(records, metadata_dict)
                       THEN { [rows |-> Append(records,
                                               RepositoryMetadata(changeset_revision, metadata_dict)),
                               call |-> Return(changeset_revision, w, "create", NoMessage, "done")] }
                       ELSE IF get_latest_repository_metadata(records) = 0
                            THEN { [rows |-> records,
                                    call |-> Raised(changeset_revision, w, "AttributeError")] }
                            ELSE { [rows |-> [records EXCEPT
                                                ![get_latest_repository_metadata(records)] =
                                                    RepositoryMetadata(changeset_revision, metadata_dict)],
                                    call |-> Return(changeset_revision, w, "update", NoMessage, "done")] }
                  ELSE LET found == get_repository_metadata_by_changeset_revision(
                                        records, changeset_revision)
                       IN  IF found = {}
                           THEN { [rows |-> records,
                                   call |-> Raised(changeset_revision, w, "AttributeError")] }
                           ELSE { [rows |-> [records EXCEPT ![i].metadata = metadata_dict],
                                   call |-> Return(changeset_revision, w, "update", NoMessage, "done")]
                                  : i \in found }
             ELSE { [rows |-> records, call |-> NothingToInstall(changeset_revision, w)] }

set_repository_metadata(changeset_revision) ==
    \E o \in Outcomes(changeset_revision) :
        /\ Len(o.rows) <= MaxRecords
        /\ records' = o.rows
        /\ last' = o.call
        /\ processed' = IF changeset_revision = Tip /\ o.call.store_op # "none"
                        THEN processed \cup {changeset_revision}
                        ELSE processed
        /\ UNCHANGED <<history, wc, requests, guids>>

\* Files are uploaded to the working copy and committed: a new tip whose
\* manifest is the working copy.
Commit(tree) ==
    /\ Len(history) < MaxRevs
    /\ history' = Append(history, tree)
    /\ wc' = tree
    /\ last' = NoRun
    /\ UNCHANGED <<records, processed, requests, guids>>

\* A changeset is pushed to the repository: a new tip, the working copy is
\* not updated to it.
Push(tree) ==
    /\ Len(history) < MaxRevs
    /\ history' = Append(history, tree)
    /\ last' = NoRun
    /\ UNCHANGED <<wc, records, processed, requests, guids>>

\* update_for_browsing with nothing to commit: hg update brings the
\* working copy to the tip.
update_for_browsing ==
    /\ Tip > 0
    /\ wc # history[Tip]
    /\ wc' = history[Tip]
    /\ last' = NoRun
    /\ UNCHANGED <<history, records, processed, requests, guids>>

\* No call is in progress.
Requests == 1..NumRequests
IdleRequest == [pc |-> "idle", decision |-> "none", metadata_dict |-> EmptyDict]
NoRequests == [calls |-> [p \in Requests |-> IdleRequest], base |-> <<>>]

\* No guid was asked for.
NoGuids == [tools |-> <<>>, results |-> <<>>]

Init ==
    /\ history = <<>>
    /\ wc = EmptyManifest
    /\ records = <<>>
    /\ last = NoRun
    /\ processed = {}
    /\ requests = NoRequests
    /\ guids = NoGuids

Next ==
    \/ \E tree \in Manifests : Commit(tree)
    \/ \E tree \in Manifests : Push(tree)
    \/ update_for_browsing
    \/ \E changeset_revision \in 0..MaxRevs : set_repository_metadata(changeset_revision)

Spec == Init /\ [][Next]_vars

TypeOK ==
    /\ Len(history) <= MaxRevs
    /\ Len(records) <= MaxRecords

(***************************************************************************)
(* Concurrent calls of set_repository_metadata on the tip.  The function   *)
(* takes no lock: between the query of the diff engine for the latest row  *)
(* and the flush of the row it writes, another call can run.               *)
(***************************************************************************)
\* What the call decides from the document and the rows it reads: the walk
\* raised, there is nothing to store, a row is created, or the latest row is
\* updated.
Decide(rows, w) ==
    IF w.raised # NoException THEN "raise"
    ELSE IF ~Truthy(w.metadata_dict) THEN "none"
    ELSE IF \/ new_tool_metadata_required(rows, w.metadata_dict)
            \/ new_workflow_metadata_required(rows, w.metadata_dict)
         THEN "create"
         ELSE "update"

\* The rows after the branch decided on is run against the rows as they
\* are then: the update branch queries the latest row again, and raises on
\* None.
PersistRows(rows, decision, changeset_revision, metadata_dict) ==
    IF decision = "create"
    THEN Append(rows, RepositoryMetadata(changeset_revision, metadata_dict))
    ELSE IF decision = "update" /\ get_latest_repository_metadata(rows) # 0
    THEN [rows EXCEPT ![get_latest_repository_metadata(rows)] =
              RepositoryMetadata(changeset_revision, metadata_dict)]
    ELSE rows

AllIdle == \A p \in Requests : requests.calls[p].pc = "idle"

\* A request starts a call on the tip: the walk of the working copy, then
\* the queries of new_tool_metadata_required and new_workflow_metadata_required.
Diff(p) ==
    /\ Tip > 0
    /\ requests.calls[p].pc = "idle"
    /\ LET w == ExtractTip(wc)
       IN  requests' = [requests EXCEPT !.calls[p] =
                            [pc |-> "diffed", decision |-> Decide(records, w),
                             metadata_dict |-> w.metadata_dict]]
    /\ UNCHANGED <<history, wc, records, last, processed, guids>>

\* The call adds and flushes its row, or rewrites the latest one, and returns.
Persist(p) ==
    /\ requests.calls[p].pc = "diffed"
    /\ LET rows == PersistRows(records, requests.calls[p].decision, Tip,
                               requests.calls[p].metadata_dict)
       IN  /\ Len(rows) <= MaxRecords
           /\ records' = rows
    /\ requests' = [requests EXCEPT !.calls[p].pc = "done"]
    /\ UNCHANGED <<history, wc, last, processed, guids>>

\* The requests in progress have all returned; the next ones start from the
\* rows they left.
NextRequests ==
    /\ \A p \in Requests : requests.calls[p].pc \in {"idle", "done"}
    /\ \E p \in Requests : requests.calls[p].pc = "done"
    /\ requests' = [calls |-> [p \in Requests |-> IdleRequest], base |-> records]
    /\ UNCHANGED <<history, wc, records, last, processed, guids>>

\* A commit between two batches of requests.
CommitBetween(tree) ==
    /\ AllIdle
    /\ Commit(tree)

NextConcurrent ==
    \/ \E tree \in Manifests : CommitBetween(tree)
    \/ \E p \in Requests : Diff(p)
    \/ \E p \in Requests : Persist(p)
    \/ NextRequests

SpecConcurrent == Init /\ [][NextConcurrent]_vars

(***************************************************************************)
(* generate_tool_guid.  Strings are sequences of characters, so that the   *)
(* formatting is a concatenation and not a tuple.                          *)
(***************************************************************************)
Chars == {"a", "/"}

\* The strings of 1 to n characters.
Strings(n) == UNION { [1..k -> Chars] : k \in 1..n }

\* '%s/repos/%s/%s/%s/%s' % ( host, username, name, id, version )
generate_tool_guid(host, username, name, id, version) ==
    host \o <<"/", "r", "e", "p", "o", "s", "/">> \o username \o <<"/">> \o name
         \o <<"/">> \o id \o <<"/">> \o version

\* The hosts, owners and repository names of the requests, and the tool ids
\* and versions read from the tool configs.
GuidInputs ==
    [host : {<<"h">>}, username : {<<"u">>}, name : {<<"r">>, <<"s">>},
     id : Strings(MaxLen), version : Strings(MaxLen)]

\* A guid is generated for a tool; two are kept, to be compared.
GenerateGuid(tool) ==
    /\ Len(guids.tools) < 2
    /\ guids' = [tools |-> Append(guids.tools, tool),
                 results |-> Append(guids.results,
                                    generate_tool_guid(tool.host, tool.username, tool.name,
                                                       tool.id, tool.version))]
    /\ UNCHANGED <<history, wc, records, last, processed, requests>>

NextGuid == \E tool \in GuidInputs : GenerateGuid(tool)

SpecGuid == Init /\ [][NextGuid]_vars

(***************************************************************************)
(* Vocabulary of the properties                                            *)
(***************************************************************************)
\* A step of set_repository_metadata: the other actions leave no call in last.
RunStep == last'.outcome # "idle"

\* The walk of the call reached its end: the document is the extracted one.
WalkCompleted(call) == call.raised \notin {"UnboundLocalError", "ParseError"}

HasTools(metadata_dict) == "tools" \in DOMAIN metadata_dict
HasWorkflows(metadata_dict) == "workflows" \in DOMAIN metadata_dict

ToolIds(metadata_dict) ==
    IF HasTools(metadata_dict)
    THEN { metadata_dict["tools"][i].id : i \in 1..Len(metadata_dict["tools"]) }
    ELSE {}

ToolPairs(metadata_dict) ==
    IF HasTools(metadata_dict)
    THEN { <<metadata_dict["tools"][i].id, metadata_dict["tools"][i].version>> :
               i \in 1..Len(metadata_dict["tools"]) }
    ELSE {}

\* Some tool id is in both documents with two different versions.
VersionChanged(new_dict, saved_dict) ==
    \E p \in ToolPairs(new_dict), q \in ToolPairs(saved_dict) : p[1] = q[1] /\ p[2] # q[2]

\* The step created exactly one row, keyed by the revision and holding the document.
Created(changeset_revision, metadata_dict) ==
    /\ last'.store_op = "create"
    /\ records' = Append(records, RepositoryMetadata(changeset_revision, metadata_dict))

\* The step overwrote the latest row in place.
UpdatedLatest(changeset_revision, metadata_dict) ==
    /\ last'.store_op = "update"
    /\ Len(records) > 0
    /\ records' = [records EXCEPT ![Len(records)] =
                       RepositoryMetadata(changeset_revision, metadata_dict)]

C2_SameToolsUpdate ==
    [][ ( /\ RunStep
          /\ last'.changeset_revision = Tip
          /\ WalkCompleted(last')
          /\ Truthy(last'.metadata_dict)
          /\ Len(records) > 0
          /\ ToolPairs(last'.metadata_dict) = ToolPairs(records[Len(records)].metadata) )
        => UpdatedLatest(Tip, last'.metadata_dict) ]_vars

(***************************************************************************)
(* C3                                                                      *)
(***************************************************************************)
\* C3: at a tip extraction, when the latest stored document has tools and a
\* tool id is in both documents with different versions, a new row is
\* required: the store receives a create and the rows before it are unchanged.
C3_VersionChangeCreates ==
    [][ ( /\ RunStep
          /\ last'.changeset_revision = Tip
          /\ WalkCompleted(last')
          /\ Len(records) > 0
          /\ HasTools(records[Len(records)].metadata)
          /\ VersionChanged(last'.metadata_dict, records[Len(records)].metadata) )
        => ( /\ Created(Tip, last'.metadata_dict)
             /\ SubSeq(records', 1, Len(records)) = records ) ]_vars

C3_Witness ==
    /\ last.store_op = "create"
    /\ Len(records) >= 2
    /\ records[Len(records)] = RepositoryMetadata(Tip, last.metadata_dict)
    /\ HasTools(records[Len(records) - 1].metadata)
    /\ VersionChanged(last.metadata_dict, records[Len(records) - 1].metadata)
    /\ ToolIds(last.metadata_dict) \subseteq ToolIds(records[Len(records) - 1].metadata)

(***************************************************************************)
(* C4                                                                      *)
(***************************************************************************)
\* C4 as stated: at a tip extraction on a repository with a latest row, a
\* tool id of the new document that is absent from the tool ids saved in
\* the latest row's document makes the store receive a create.
C4_NewIdCreates ==
    [][ ( /\ RunStep
          /\ last'.changeset_revision = Tip
          /\ WalkCompleted(last')
          /\ Len(records) > 0
          /\ ToolIds(last'.metadata_dict) \ ToolIds(records[Len(records)].metadata) # {} )
        => Created(Tip, last'.metadata_dict) ]_vars

\* C4 amended: at a tip extraction on a repository whose latest row's
\* document has tool metadata, a tool id of the new document that is absent
\* from the tool ids saved in that document makes the store receive a
\* create, not an update.
C4_NewIdCreatesWhenToolsSaved ==
    [][ ( /\ RunStep
          /\ last'.changeset_revision = Tip
          /\ WalkCompleted(last')
          /\ Len(records) > 0
          /\ HasTools(records[Len(records)].metadata)
          /\ ToolIds(last'.metadata_dict) \ ToolIds(records[Len(records)].metadata) # {} )
        => Created(Tip, last'.metadata_dict) ]_vars

C4_Witness ==
    /\ last.store_op = "create"
    /\ Len(records) >= 2
    /\ records[Len(records)] = RepositoryMetadata(Tip, last.metadata_dict)
    /\ HasTools(records[Len(records) - 1].metadata)
    /\ ToolIds(last.metadata_dict) \ ToolIds(records[Len(records) - 1].metadata) # {}
    /\ ~VersionChanged(last.metadata_dict, records[Len(records) - 1].metadata)

(***************************************************************************)
(* C5                                                                      *)
(***************************************************************************)
\* C5: a call on a revision that is not the tip, and that was once processed
\* as the tip, creates no row: when the extracted document is not empty the
\* call completes by overwriting the document of the row keyed by that
\* revision, and the number of rows is unchanged.
C5_NonTipOverwrites ==
    [][ ( /\ RunStep
          /\ ctx_found(last'.changeset_revision)
          /\ last'.changeset_revision # Tip
          /\ last'.changeset_revision \in processed
          /\ WalkCompleted(last')
          /\ Truthy(last'.metadata_dict) )
        => ( /\ last'.outcome = "returned"
             /\ last'.store_op = "update"
             /\ \E i \in 1..Len(records) :
                    /\ records[i].changeset_revision = last'.changeset_revision
                    /\ records' = [records EXCEPT ![i].metadata = last'.metadata_dict] ) ]_vars

(***************************************************************************)
(* C6                                                                      *)
(***************************************************************************)
\* C6: in every reachable state of the store each revision identifier of the
\* repository has at most one metadata row.
C6_OneRowPerRevision ==
    \A i, j \in 1..Len(records) :
        records[i].changeset_revision = records[j].changeset_revision => i = j

(***************************************************************************)
(* C7                                                                      *)
(***************************************************************************)
\* C7: a call on a revision that is not in the change history returns status
\* error with the message that the repository does not include the
\* revision; no file is parsed, no document is produced and the store is
\* left unchanged.
C7_UnknownRevisionIsTerminal ==
    [][ ( /\ RunStep
          /\ ~ctx_found(last'.changeset_revision) )
        => ( /\ last'.outcome = "returned"
             /\ last'.status = "error"
             /\ last'.message = [text |-> "This repository does not include revision",
                                 revision |-> last'.changeset_revision, items |-> <<>>]
             /\ last'.parsed = <<>>
             /\ ~Truthy(last'.metadata_dict)
             /\ last'.store_op = "none"
             /\ records' = records ) ]_vars

C7_Witness ==
    /\ last.outcome = "returned"
    /\ ~ctx_found(last.changeset_revision)
    /\ last.status = "error"
    /\ records # <<>>
    /\ Tip > 0

(***************************************************************************)
(* C8                                                                      *)
(***************************************************************************)
\* C8: a call whose document has no tools and no workflows (a document with
\* only datatype_files or datatypes entries included) ends in status error,
\* with the message that the revision includes no tools or workflows, and
\* performs no create and no update on the store.
C8_NoToolsNoWorkflowsIsError ==
    [][ ( /\ RunStep
          /\ ctx_found(last'.changeset_revision)
          /\ WalkCompleted(last')
          /\ ~HasTools(last'.metadata_dict)
          /\ ~HasWorkflows(last'.metadata_dict) )
        => ( /\ last'.outcome = "returned"
             /\ last'.status = "error"
             /\ last'.invalid_files = <<>>
                    => last'.message.text = "includes no tools or exported workflows"
             /\ last'.store_op = "none"
             /\ records' = records ) ]_vars

(***************************************************************************)
(* C9                                                                      *)
(***************************************************************************)
\* C9: the outcome of every call is determined by the document and the
\* invalid files: status done with an empty message exactly when the
\* document is not empty and no file was invalid; status error, the document
\* stored and a message listing every invalid file when the document is not
\* empty and some file was invalid; status error and nothing stored when the
\* document is empty or the revision is not in the history.
C9_TerminalOutcome ==
    [][ RunStep =>
          LET call == last'
              nonempty == ctx_found(call.changeset_revision) /\ Truthy(call.metadata_dict)
          IN  /\ ( call.outcome = "returned" /\ call.status = "done" /\ call.message = NoMessage )
                     <=> ( nonempty /\ call.invalid_files = <<>> )
              /\ ( nonempty /\ call.invalid_files # <<>> )
                     => ( /\ call.outcome = "returned"
                          /\ call.status = "error"
                          /\ call.store_op \in {"create", "update"}
                          /\ call.message.items = call.invalid_files )
              /\ ~nonempty
                     => ( /\ call.outcome = "returned"
                          /\ call.status = "error"
                          /\ call.store_op = "none"
                          /\ records' = records ) ]_vars

(***************************************************************************)
(* C10                                                                     *)
(***************************************************************************)
\* The tool configs and workflows of a revision, which the walk hands to
\* load_tool or from_json_string, and those the parser fails on.
Candidates(tree, at_tip) ==
    { n \in DOMAIN tree :
          IF at_tip THEN (n # DATATYPES_CONF /\ endswith(n, "xml")) \/ endswith(n, "ga")
          ELSE endswith(n, "xml") }

ParseFails(content) == content.kind \in {"malformed", "malformed_json"}

\* C10: at the tip and at a revision that is not the tip, a tool config or
\* workflow that fails to parse is recorded as one entry of the invalid
\* files and every other candidate file of the revision is still processed:
\* the walk and the call are not aborted by it.
C10_ParseFailureIsolated ==
    ( /\ last.outcome # "idle"
      /\ ctx_found(last.changeset_revision)
      /\ last.raised # "ParseError" ) =>
        LET tree == IF last.changeset_revision = Tip THEN wc
                    ELSE history[last.changeset_revision]
        IN  /\ WalkCompleted(last)
            /\ \A n \in Candidates(tree, last.changeset_revision = Tip) :
                   /\ \E i \in 1..Len(last.parsed) : last.parsed[i] = n
                   /\ ParseFails(tree[n]) =>
                          Cardinality({ i \in 1..Len(last.invalid_files) :
                                            last.invalid_files[i][1] = n }) = 1

(***************************************************************************)
(* C11                                                                     *)
(***************************************************************************)
\* C11: when a call ends, however it ends, no temporary file that it
\* created for the content of a historical file remains.
C11_NoTempFileLeft ==
    last.outcome # "idle" => last.tmp_files = <<>>

(***************************************************************************)
(* C12                                                                     *)
(***************************************************************************)
\* The tool configs of a tree whose dynamic parameter depends on an index
\* file X.loc while the tree holds no sample file X.loc.sample.
MissingSample(tree) ==
    { n \in DOMAIN tree :
          /\ endswith(n, "xml")
          /\ tree[n].kind = "tool"
          /\ tree[n].index_file # NoIndexFile
          /\ FileName(tree[n].index_file.tail, "sample") \notin DOMAIN tree }

\* C12: for every tool that depends on an index file X.loc in a revision
\* without X.loc.sample (the tip, or a revision once processed as the tip),
\* the tool has no entry in the document's tools, an invalid-file entry is
\* recorded for it, the status returned is error and the message names the
\* missing file and the sample X.loc.sample.
C12_MissingSampleReported ==
    ( /\ last.outcome # "idle"
      /\ ctx_found(last.changeset_revision)
      /\ last.changeset_revision = Tip \/ last.changeset_revision \in processed ) =>
        LET tree == IF last.changeset_revision = Tip THEN wc
                    ELSE history[last.changeset_revision]
        IN  \A n \in MissingSample(tree) :
                /\ last.outcome = "returned"
                /\ last.status = "error"
                /\ \A i \in 1..Len(IF HasTools(last.metadata_dict)
                                   THEN last.metadata_dict["tools"] ELSE <<>>) :
                       last.metadata_dict["tools"][i].tool_config.name # n
                /\ \E i \in 1..Len(last.invalid_files) : last.invalid_files[i][1] = n
                /\ \E i \in 1..Len(last.message.items) :
                       /\ last.message.items[i][1] = n
                       /\ last.message.items[i][2].kind = "missing_index"
                       /\ last.message.items[i][2].refers_to = tree[n].index_file
                       /\ last.message.items[i][2].upload
                              = FileName(tree[n].index_file.tail, "sample")

(***************************************************************************)
(* C13                                                                     *)
(***************************************************************************)
\* The rows after k calls on the tip run one after the other.
RECURSIVE SerialRuns(_, _)
SerialRuns(rows, k) ==
    IF k = 0 THEN rows
    ELSE LET w == ExtractTip(wc)
         IN  SerialRuns(PersistRows(rows, Decide(rows, w), Tip, w.metadata_dict), k - 1)

\* C13: the calls on one repository are serialized: once the concurrent
\* calls have all returned, the store is the one that the same calls leave
\* when run one after the other (two calls on a repository without rows
\* never both create a row).
C13_SerialOutcome ==
    ( \A p \in Requests : requests.calls[p].pc \in {"idle", "done"} ) =>
        records = SerialRuns(requests.base,
                             Cardinality({ p \in Requests : requests.calls[p].pc = "done" }))

(***************************************************************************)
(* C14                                                                     *)
(***************************************************************************)
\* C14: a call on the tip that directly follows a call on the same tip, with
\* nothing committed, pushed or updated in between, extracts the same
\* document and leaves the rows as they were: no row is added.
C14_SecondRunChangesNothing ==
    [][ ( /\ last.outcome # "idle"
          /\ last.changeset_revision = Tip
          /\ RunStep
          /\ last'.changeset_revision = Tip )
        => ( /\ last'.metadata_dict = last.metadata_dict
             /\ records' = records ) ]_vars

(***************************************************************************)
(* C15                                                                     *)
(***************************************************************************)
\* C15: the guid of a tool is host/repos/owner/name/id/version, the same
\* for the same five inputs, and two tools that differ in some input have
\* different guids.
C15_GuidInjective ==
    \A i, j \in 1..Len(guids.tools) :
        /\ guids.results[i] =
               generate_tool_guid(guids.tools[i].host, guids.tools[i].username,
                                  guids.tools[i].name, guids.tools[i].id,
                                  guids.tools[i].version)
        /\ guids.tools[i] = guids.tools[j] => guids.results[i] = guids.results[j]
        /\ guids.tools[i] # guids.tools[j] => guids.results[i] # guids.results[j]

(***************************************************************************)
(* C16                                                                     *)
(***************************************************************************)
\* C16: at a tip extraction, new_workflow_metadata_required is true exactly
\* when the document has workflows and the repository has no row, and a row
\* is then created; when the repository has a row and the document has no
\* tools, the latest row is updated in place and no row is created.
C16_WorkflowPolicy ==
    [][ ( /\ RunStep
          /\ last'.changeset_revision = Tip
          /\ WalkCompleted(last')
          /\ Truthy(last'.metadata_dict) )
        => ( /\ new_workflow_metadata_required(records, last'.metadata_dict)
                  <=> ( HasWorkflows(last'.metadata_dict) /\ records = <<>> )
             /\ ( HasWorkflows(last'.metadata_dict) /\ records = <<>> )
                  => Created(Tip, last'.metadata_dict)
             /\ ( Len(records) > 0 /\ ~HasTools(last'.metadata_dict) )
                  => UpdatedLatest(Tip, last'.metadata_dict) ) ]_vars

\* A call on the tip folded a document with workflows and without tools
\* into the row of an earlier revision.
C16_Witness ==
    /\ last.store_op = "update"
    /\ last.changeset_revision = Tip
    /\ Tip = 2
    /\ processed = {1, 2}
    /\ HasWorkflows(last.metadata_dict)
    /\ ~HasTools(last.metadata_dict)
    /\ Len(records) = 1
    /\ records[1] = RepositoryMetadata(Tip, last.metadata_dict)

(***************************************************************************)
(* C17                                                                     *)
(***************************************************************************)
\* C17 as stated: at a tip extraction, when the latest row's document has no
\* tools and the new document has a tool, new_tool_metadata_required is
\* true and a row is created.
C17_FirstToolCreates ==
    [][ ( /\ RunStep
          /\ last'.changeset_revision = Tip
          /\ WalkCompleted(last')
          /\ Len(records) > 0
          /\ ~HasTools(records[Len(records)].metadata)
          /\ HasTools(last'.metadata_dict) )
        => ( /\ new_tool_metadata_required(records, last'.metadata_dict)
             /\ Created(Tip, last'.metadata_dict) ) ]_vars

\* C17 amended: at a tip extraction, when the latest row's document has no
\* tools and the new document has a tool, new_tool_metadata_required is
\* false and the latest row is updated in place: no row is created.
C17_FirstToolUpdates ==
    [][ ( /\ RunStep
          /\ last'.changeset_revision = Tip
          /\ WalkCompleted(last')
          /\ Len(records) > 0
          /\ ~HasTools(records[Len(records)].metadata)
          /\ HasTools(last'.metadata_dict) )
        => ( /\ ~new_tool_metadata_required(records, last'.metadata_dict)
             /\ UpdatedLatest(Tip, last'.metadata_dict) ) ]_vars

\* The row created for a first revision without tools was updated with the
\* document of the second revision, which has a tool.
C17_Witness ==
    /\ last.store_op = "update"
    /\ last.changeset_revision = Tip
    /\ Tip = 2
    /\ processed = {1, 2}
    /\ ~HasTools(ExtractTip(history[1]).metadata_dict)
    /\ HasTools(last.metadata_dict)
    /\ wc = history[2]
    /\ Len(records) = 1
    /\ records[1] = RepositoryMetadata(Tip, last.metadata_dict)

(***************************************************************************)
(* C18                                                                     *)
(***************************************************************************)
\* C18: a tip extraction that takes the update branch leaves as many rows as
\* before, the latest one keyed by the tip and holding the new document;
\* when that row was keyed by another revision, no row is keyed by that
\* revision any more.
C18_UpdateRekeysLatest ==
    [][ ( /\ RunStep
          /\ last'.changeset_revision = Tip
          /\ last'.store_op = "update" )
        => ( /\ Len(records') = Len(records)
             /\ Len(records) > 0
             /\ records'[Len(records')] = RepositoryMetadata(Tip, last'.metadata_dict)
             /\ records[Len(records)].changeset_revision # Tip
                  => get_repository_metadata_by_changeset_revision(
                         records', records[Len(records)].changeset_revision) = {} ) ]_vars

(***************************************************************************)
(* C19                                                                     *)
(***************************************************************************)
\* C19: at a tip extraction, when the tool ids of the new document are some
\* but not all of the tool ids of the latest row's document and no id
\* changes its version, new_tool_metadata_required is false and the latest
\* row is overwritten in place: the removed tool is in that row no more.
C19_RemovedToolUpdates ==
    [][ ( /\ RunStep
          /\ last'.changeset_revision = Tip
          /\ WalkCompleted(last')
          /\ Len(records) > 0
          /\ ToolIds(last'.metadata_dict) # {}
          /\ ToolIds(last'.metadata_dict) \subseteq ToolIds(records[Len(records)].metadata)
          /\ ToolIds(last'.metadata_dict) # ToolIds(records[Len(records)].metadata)
          /\ ~VersionChanged(last'.metadata_dict, records[Len(records)].metadata) )
        => ( /\ ~new_tool_metadata_required(records, last'.metadata_dict)
             /\ UpdatedLatest(Tip, last'.metadata_dict)
             /\ ToolIds(records'[Len(records')].metadata) = ToolIds(last'.metadata_dict) ) ]_vars

\* The row created for a first revision with tools a and b was overwritten
\* with the document of the second revision, which has tool a only.
C19_Witness ==
    /\ last.store_op = "update"
    /\ last.changeset_revision = Tip
    /\ Tip = 2
    /\ processed = {1, 2}
    /\ wc = history[2]
    /\ ToolIds(ExtractTip(history[1]).metadata_dict) = {"a", "b"}
    /\ ToolIds(last.metadata_dict) = {"a"}
    /\ ~VersionChanged(last.metadata_dict, ExtractTip(history[1]).metadata_dict)
    /\ records = <<RepositoryMetadata(Tip, last.metadata_dict)>>

====
